---- MODULE Spec2Model ----
(***************************************************************************)
(* The conversation graph of the port-logistics assistant: one thread of   *)
(* AgentState driven through chat -> ORCHESTRATOR -> (BOOKING | CAPACITY)* *)
(* -> GUARDIAN -> END.  The language model, the classifier and the         *)
(* identity-resolution service are environment: their outputs are chosen   *)
(* from the small sets below.                                              *)
(***************************************************************************)
EXTENDS Integers, Sequences, FiniteSets, TLC

\* Python None
NULL == "NULL"

\* ---- bounds of the exploration -------------------------------------------
\* a new external turn is started only while the log holds at most this many
\* messages
MaxHistory == 4
\* largest number of tool calls in one model decision
MaxToolCalls == 2
\* messages a thread may hold when a turn starts, where whole behaviours are
\* examined
MaxLiveHistory == 2
\* messages a thread may hold when a turn starts, where calls may fail
MaxFaultHistory == 1
\* api_get calls examined one after another
MaxApiCalls == 3
\* the clock stops at this tick
MaxTime == 6
\* passages of the rate-limit gate examined
MaxGateCalls == 3
\* get_llm calls examined
MaxLlmCalls == 4
\* days of the calendar the tool is called on
MaxDay == 3

\* ---- vocabularies ----------------------------------------------------------
valid_nodes == {"BOOKING", "CAPACITY"}

RequestRoles == {"CARRIER", "OPERATOR", "ADMIN", "GUEST"}

UserIds == {"u1"}

Languages == {"English", "French"}

\* the tenant ids the backend knows; c1 / t1 belong to user u1
CarrierOf(u) == "c1"
TerminalOf(u) == "t1"

\* ---- AgentState values ------------------------------------------------------
\* a channel without a reducer: the update replaces the value
add_messages_replace(left, right) == right

\* the reducer of the messages channel: the update is appended (the messages
\* the nodes return are new ones, none carries the id of an earlier one)
add_messages(left, right) == left \o right

NoDraft == [by |-> "NONE", kind |-> "NONE"]
Draft(by, kind) == [by |-> by, kind |-> kind]
\* Python truthiness of draft_response: None and "" are falsy
\* a test for None alone
Falsy_noneOnly(d) == d.kind = "NONE"

Falsy(d) == d.kind \in {"NONE", "EMPTY"}

NoPayload == [ui_action |-> "NULL", terminal |-> "NULL"]

Msg(type, nd, name, content, of) ==
    [type |-> type, node |-> nd, name |-> name, content |-> content, of |-> of]

HumanMessage == Msg("human", "USER", "", "TEXT", NoDraft)

\* ---- classifier output and its parsing --------------------------------------
\* texts the classifier may put in "intent" (or return raw when not JSON)
IntentTexts ==
    {"BOOKING", "CAPACITY", "CHITCHAT", "HELP", "OUT_OF_SCOPE", "MULTI",
     "capacity", "GIBBERISH", "BOOKING PLEASE"}

\* str.strip().upper() on the texts above
StripUpper(s) == IF s = "capacity" THEN "CAPACITY" ELSE s

\* str.lower() on node names
Lower(s) == CASE s = "BOOKING" -> "booking"
              [] s = "CAPACITY" -> "capacity"
              [] OTHER -> s

\* the keywords that occur as substrings of an (upper-cased) intent text
Keywords(s) == CASE s = "BOOKING" -> {"BOOKING"}
                 [] s = "CAPACITY" -> {"CAPACITY"}
                 [] s = "CHITCHAT" -> {"CHITCHAT"}
                 [] s = "HELP" -> {"HELP"}
                 [] s = "OUT_OF_SCOPE" -> {"OUT_OF_SCOPE"}
                 [] s = "MULTI" -> {"MULTI"}
                 [] s = "BOOKING PLEASE" -> {"BOOKING"}
                 [] OTHER -> {}

\* Python's  kw in intent  on strings
Contains(s, kw) == kw \in Keywords(s)

\* the "intents" arrays the classifier may return with MULTI
IntentsLists ==
    { <<"CAPACITY", "BOOKING">>, <<"BOOKING", "CAPACITY">>,
      <<"capacity", "BOOKING">>, <<"BOOKING", "HISTORY">>,
      <<"BOOKING", "BOOKING">> }

\* raw classifier outputs: JSON objects (json = TRUE) with or without the
\* keys "intent", "language", "intents", or free text (json = FALSE)
ClassifierOutputs ==
    [json : {TRUE}, intent : IntentTexts \ {"MULTI"}, language : {"English"},
     has_intents : {FALSE}, intents : {<<>>}]
    \cup
    [json : {TRUE}, intent : {"BOOKING", "HELP"}, language : {"French"},
     has_intents : {FALSE}, intents : {<<>>}]
    \cup
    [json : {TRUE}, intent : {"MULTI"}, language : {"English"},
     has_intents : {TRUE}, intents : IntentsLists]
    \cup
    [json : {TRUE}, intent : {"MULTI", NULL}, language : {NULL},
     has_intents : {FALSE}, intents : {<<>>}]
    \cup
    [json : {FALSE}, intent : {"GIBBERISH", "BOOKING PLEASE", "MULTI"},
     language : {NULL}, has_intents : {FALSE}, intents : {<<>>}]

classify_intent_and_language(raw) ==
    IF raw.json
    THEN [intent |-> IF raw.intent = NULL THEN "CHITCHAT"
                     ELSE StripUpper(raw.intent),
          language |-> IF raw.language = NULL THEN "English"
                       ELSE raw.language,
          has_intents |-> raw.has_intents,
          intents |-> raw.intents]
    ELSE [intent |-> StripUpper(raw.intent),
          language |-> "English",
          has_intents |-> FALSE,
          intents |-> <<>>]

NoClassification ==
    [intent |-> NULL, language |-> NULL, has_intents |-> FALSE,
     intents |-> <<>>]

\* ---- ORCHESTRATOR -----------------------------------------------------------
\* a plan taken from the classifier as it comes
MultiPlan_unfiltered(c) ==
    IF c.has_intents THEN [i \in 1..Len(c.intents) |-> StripUpper(c.intents[i])]
    ELSE <<"CAPACITY", "BOOKING">>

\* CASE 0: the plan of a MULTI classification
MultiPlan(c) ==
    LET given == IF c.has_intents THEN c.intents ELSE <<"CAPACITY", "BOOKING">>
        upper == [i \in 1..Len(given) |-> StripUpper(given[i])]
        kept  == SelectSeq(upper, LAMBDA x : x \in {"BOOKING", "CAPACITY"})
    IN  IF Len(kept) < 2 THEN <<"CAPACITY", "BOOKING">> ELSE kept

\* a MULTI classification that queues nothing behind the first intent
MultiRemaining_none(plan) == <<>>

\* remaining_intents = intents_list[1:]
MultiRemaining(plan) == Tail(plan)

\* step 3: the queue is consulted before the routing cases
PendingBranch(intent, pending) ==
    /\ pending # <<>>
    /\ intent \notin {"MULTI", "BOOKING", "CAPACITY", "CHITCHAT"}

\* one help text for every role
HelpDraft_carrier(role) == Draft("ORCHESTRATOR", "HELP_CARRIER")

\* CASE D: the help text, by role
HelpDraft(role) ==
    Draft("ORCHESTRATOR",
          IF role = "ADMIN" THEN "HELP_ADMIN"
          ELSE IF role = "OPERATOR" THEN "HELP_OPERATOR"
          ELSE "HELP_CARRIER")

\* the Command the orchestrator returns: its update and its goto.  route_lock
\* is read (it is shown to the classifier) but takes no part in the routing.
OrchestratorCommand(c, pending, lock, role) ==
    LET intent == c.intent
        toSpecialist(dest, rest) ==
            [goto |-> dest, current_intent |-> Lower(dest),
             language_detected |-> c.language, pending_intents |-> rest,
             writes_draft |-> FALSE, draft_response |-> NoDraft]
        toGuardian(d) ==
            [goto |-> "GUARDIAN", current_intent |-> "general",
             language_detected |-> c.language, pending_intents |-> <<>>,
             writes_draft |-> TRUE, draft_response |-> d]
    IN  IF PendingBranch(intent, pending) /\ Head(pending) \in valid_nodes
          THEN toSpecialist(Head(pending), Tail(pending))
        ELSE IF Contains(intent, "MULTI")
          THEN toSpecialist(Head(MultiPlan(c)), MultiRemaining(MultiPlan(c)))
        ELSE IF Contains(intent, "BOOKING")
          THEN toSpecialist("BOOKING", <<>>)
        ELSE IF Contains(intent, "CAPACITY")
          THEN toSpecialist("CAPACITY", <<>>)
        ELSE IF Contains(intent, "HELP")
          THEN toGuardian(HelpDraft(role))
        ELSE IF Contains(intent, "OUT_OF_SCOPE")
          THEN toGuardian(Draft("ORCHESTRATOR", "REFUSAL"))
        ELSE toGuardian(Draft("ORCHESTRATOR", "GREETING"))

\* ---- GUARDIAN ---------------------------------------------------------------
ROLE_PERMISSIONS(role) ==
    CASE role = "CARRIER" ->
           [allowed_intents |-> {"booking", "capacity", "general"},
            label |-> "Truck Carrier"]
      [] role = "OPERATOR" ->
           [allowed_intents |-> {"booking", "capacity", "general"},
            label |-> "Terminal Operator"]
      [] role = "ADMIN" ->
           [allowed_intents |-> {"booking", "capacity", "general"},
            label |-> "Port Administrator"]
      [] OTHER -> [allowed_intents |-> {}, label |-> "User"]

KnownRoles == {"CARRIER", "OPERATOR", "ADMIN"}

\* the table as the module holds it
ShippedTable == [r \in KnownRoles |-> ROLE_PERMISSIONS(r)]

\* a table that withholds capacity data from carriers
RestrictedTable ==
    [ShippedTable EXCEPT !["CARRIER"].allowed_intents = {"booking", "general"}]

\* a check that gives an unknown role no entry at all
PermissionCheck_strict(table, role, intent) ==
    role \in DOMAIN table /\ intent \in table[role].allowed_intents

\* ROLE_PERMISSIONS.get(user_role, ROLE_PERMISSIONS["CARRIER"])
PermissionCheck(table, role, intent) ==
    LET role_config == IF role \in DOMAIN table THEN table[role]
                       ELSE table["CARRIER"]
    IN  intent \in role_config.allowed_intents

check_permission(role, intent) == PermissionCheck(ShippedTable, role, intent)

\* a denial that names the entry the check fell back to
DenialLabel_checked(table, role) ==
    IF role \in DOMAIN table THEN table[role].label
    ELSE table["CARRIER"].label

\* ROLE_PERMISSIONS.get(user_role, {}).get("label", "User")
DenialLabel(table, role) ==
    IF role \in DOMAIN table THEN table[role].label ELSE "User"

\* a guardian that never continues with the queue
GuardianContinues_never(pending, lock) == FALSE

\* G. continuation: pop the queue only when the specialist left no lock
GuardianContinues(pending, lock) == pending # <<>> /\ lock = NULL

\* a guardian that continues with the head of the queue and leaves it queued
GuardianCommand_keep(pending, lock, intent) ==
    IF GuardianContinues(pending, lock) /\ Head(pending) \in valid_nodes
    THEN [goto |-> Head(pending), pending_intents |-> pending,
          current_intent |-> Lower(Head(pending))]
    ELSE [goto |-> "__end__", pending_intents |-> pending,
          current_intent |-> intent]

\* a guardian that hands a queued intent back to the orchestrator
GuardianCommand_reclassify(pending, lock, intent) ==
    IF GuardianContinues(pending, lock)
    THEN [goto |-> "ORCHESTRATOR", pending_intents |-> Tail(pending),
          current_intent |-> intent]
    ELSE [goto |-> "__end__", pending_intents |-> pending,
          current_intent |-> intent]

\* the Command the guardian returns once the permission check has passed
GuardianCommand(pending, lock, intent) ==
    IF GuardianContinues(pending, lock)
    THEN IF Head(pending) \in valid_nodes
         THEN [goto |-> Head(pending), pending_intents |-> Tail(pending),
               current_intent |-> Lower(Head(pending))]
         ELSE [goto |-> "__end__", pending_intents |-> Tail(pending),
               current_intent |-> intent]
    ELSE [goto |-> "__end__", pending_intents |-> pending,
          current_intent |-> intent]

\* ---- the model's tool-calling decisions --------------------------------------
Call(name, carrier, terminal, followup) ==
    [name |-> name, carrier_id |-> carrier, terminal_id |-> terminal,
     needs_followup |-> followup]

\* the single tool call of a decision: the tools of the repository whose
\* handling differs, with the arguments that matter, and one name no dispatch
\* knows
ModelCalls ==
    { Call("prepare_booking_form", NULL, "Terminal A", FALSE),
      Call("communicate_with_user", NULL, NULL, TRUE),
      Call("communicate_with_user", NULL, NULL, FALSE),
      Call("get_bookings_by_user", NULL, NULL, FALSE),
      Call("get_bookings_by_user", "c2", NULL, FALSE),
      Call("get_all_bookings", NULL, NULL, FALSE),
      Call("get_bookings_by_terminal_id", NULL, "t2", FALSE),
      Call("get_capacity_summary", NULL, "ALL", FALSE),
      Call("delete_booking", NULL, NULL, FALSE) }

\* decisions with several calls: the first call, and what may follow it
FirstOfSeveral ==
    { Call("get_bookings_by_user", NULL, NULL, FALSE),
      Call("communicate_with_user", NULL, NULL, FALSE) }

ExtraCalls == { Call("communicate_with_user", NULL, NULL, TRUE) }

RECURSIVE SeqsUpTo(_, _)
SeqsUpTo(S, n) ==
    IF n = 0 THEN {<<>>}
    ELSE LET shorter == SeqsUpTo(S, n - 1)
         IN  shorter \cup {Append(q, x) : q \in shorter, x \in S}

ContentKinds == {"TEXT", "EMPTY"}

\* an AIMessage returned by llm_with_tools.invoke
Decisions ==
    [content : ContentKinds, tool_calls : {<<>>}]
    \cup
    { [content |-> "EMPTY", tool_calls |-> <<c>>] : c \in ModelCalls }
    \cup
    { [content |-> "EMPTY", tool_calls |-> <<c>> \o more] :
        c \in FirstOfSeveral,
        more \in SeqsUpTo(ExtraCalls, MaxToolCalls - 1) \ {<<>>} }

\* ---- specialists ------------------------------------------------------------
\* tools_to_bind of the booking agent
BookingToolset(role) ==
    CASE role = "ADMIN" ->
           {"get_all_bookings", "get_bookings_by_terminal_id",
            "get_capacity_by_terminal_id", "get_terminal_schedule",
            "communicate_with_user"}
      [] role = "OPERATOR" ->
           {"get_bookings_by_terminal_id", "get_capacity_by_terminal_id",
            "get_terminal_schedule", "communicate_with_user"}
      [] role = "CARRIER" ->
           {"prepare_booking_form", "communicate_with_user",
            "get_bookings_by_user"}
      [] OTHER -> {}

\* base_tools of the capacity agent
CapacityToolset(role) ==
    {"check_availability", "get_terminal_details", "communicate_with_user",
     "get_capacity_summary"}
    \cup (IF role \in {"ADMIN", "OPERATOR"}
          THEN {"get_capacity_by_terminal_id"} ELSE {})

Toolset(self, role) ==
    IF self = "BOOKING" THEN BookingToolset(role) ELSE CapacityToolset(role)

\* the names the if/elif chain of each agent executes
BookingDispatch ==
    {"prepare_booking_form", "get_terminal_schedule", "communicate_with_user",
     "get_bookings_by_user", "get_bookings_by_terminal_id",
     "get_capacity_by_terminal_id", "get_all_bookings"}

CapacityDispatch ==
    {"get_terminal_details", "get_capacity_summary", "communicate_with_user",
     "check_availability", "get_capacity_by_terminal_id"}

Dispatch(self) == IF self = "BOOKING" THEN BookingDispatch ELSE CapacityDispatch

\* an agent that invokes whatever tool the model names
Executes_any(self, role, name) == TRUE

\* whether the agent executes the requested tool; the bound toolset is passed
\* to the model only and is not consulted here
Executes(self, role, name) == name \in Dispatch(self)

\* any message to the user taken for a question
NeedsFollowup_anyCommunicate(call) == call.name = "communicate_with_user"

\* needs_followup = call["args"].get("needs_followup", False), read only in
\* the communicate_with_user branch
NeedsFollowup(call) ==
    call.name = "communicate_with_user" /\ call.needs_followup

\* an agent that loops over every tool call of the decision
CallsToExecute_all(tool_calls) == tool_calls

\* D. single tool call: only tool_calls[0] is looked at
CallsToExecute(tool_calls) ==
    IF tool_calls = <<>> THEN <<>> ELSE <<tool_calls[1]>>

\* the carrier filter get_bookings_by_user ends up with: the state's
\* carrier_id replaces the model's only when it is truthy
InjectedCarrier(state_carrier, model_carrier) ==
    IF state_carrier # NULL THEN state_carrier ELSE model_carrier

\* the tenant filters of the request a tool sends to the data service
ToolRequest(self, call, state_carrier, state_terminal) ==
    LET n == call.name
    IN  CASE n = "get_bookings_by_user" ->
               [backend |-> TRUE,
                carrierId |-> InjectedCarrier(state_carrier, call.carrier_id),
                terminalId |-> call.terminal_id]
          [] n = "get_all_bookings" ->
               [backend |-> TRUE, carrierId |-> call.carrier_id,
                terminalId |-> call.terminal_id]
          [] n \in {"get_bookings_by_terminal_id",
                    "get_capacity_by_terminal_id", "check_availability"} ->
               [backend |-> TRUE, carrierId |-> NULL,
                terminalId |-> call.terminal_id]
          [] n \in {"get_terminal_schedule", "get_capacity_summary",
                    "get_terminal_details"} ->
               [backend |-> TRUE, carrierId |-> NULL,
                terminalId |-> IF call.terminal_id \in {NULL, "ALL"}
                               THEN "all" ELSE call.terminal_id]
          [] n = "prepare_booking_form" ->
               [backend |-> TRUE, carrierId |-> NULL, terminalId |-> NULL]
          [] OTHER ->
               [backend |-> FALSE, carrierId |-> NULL, terminalId |-> NULL]

\* a form opened without the arguments of the call
FormPayload_bare(call) ==
    [ui_action |-> "OPEN_BOOKING_FORM", terminal |-> NULL]

\* json.loads of what prepare_booking_form returns: the action and the prefill
\* built from the arguments of the call
FormPayload(call) ==
    [ui_action |-> "OPEN_BOOKING_FORM", terminal |-> call.terminal_id]

\* ---- the data service behind the tools ---------------------------------------
\* a tool that lets the failure of its request escape
RequestOutcome_uncaught(up) == IF up THEN "OK" ELSE "RAISES"

\* try: api_get(...); resp.json()  except Exception: the tool's fallback value
RequestOutcome(up) == IF up THEN "OK" ELSE "CAUGHT"

\* the text a tool returns; prepare_booking_form builds its form from the
\* terminal name when the terminals map could not be fetched
ToolText(name, backend, outcome) ==
    IF backend /\ outcome = "CAUGHT" /\ name # "prepare_booking_form"
    THEN "FAILED_TEXT" ELSE "RESULT"

\* the tools a specialist invokes itself before it calls the model
Prefetches(self, role) ==
    IF self = "CAPACITY" THEN <<"get_terminals_map">>
    ELSE IF role \in {"ADMIN", "OPERATOR"}
    THEN <<"get_terminal_schedule", "get_terminals_map">>
    ELSE IF role = "CARRIER" THEN <<"get_terminals_map">>
    ELSE <<>>

\* ---- api_client ---------------------------------------------------------------
\* what requests.get may bring: a response with a status, or (0) an exception
\* of the connection (timeout, refused), which requests.get raises itself
GetOutcomes == {0, 200, 401, 403, 500}

\* the cookies a refresh response may set: a new value or none, per token
RefreshCookies ==
    [access : {"new", NULL}, refresh : {"new", NULL}, csrf : {"new", NULL}]

\* requests.post(.../api/auth/refresh) followed by raise_for_status
PostOutcomes == {0, 200, 401, 500}

StoredTokens == [access |-> "old", refresh |-> "old", csrf |-> "old"]

\* a store that keeps exactly what the refresh response set
save_tokens_overwrite(stored, cookies) == cookies

\* save_tokens: only the tokens given a value are overwritten
save_tokens(stored, cookies) ==
    [access  |-> IF cookies.access # NULL THEN cookies.access
                 ELSE stored.access,
     refresh |-> IF cookies.refresh # NULL THEN cookies.refresh
                 ELSE stored.refresh,
     csrf    |-> IF cookies.csrf # NULL THEN cookies.csrf ELSE stored.csrf]

\* the values the backend issues, one per successful refresh
IssuedTokens == <<"new", "new2", "new3", "new4", "new5", "new6">>

\* resp.cookies of the n-th successful refresh: the cookies it sets carry the
\* n-th value, the others are absent
ResponseCookies(set, n) ==
    [access  |-> IF set.access # NULL THEN IssuedTokens[n] ELSE NULL,
     refresh |-> IF set.refresh # NULL THEN IssuedTokens[n] ELSE NULL,
     csrf    |-> IF set.csrf # NULL THEN IssuedTokens[n] ELSE NULL]

NoCookies == [access |-> NULL, refresh |-> NULL, csrf |-> NULL]

\* get_auth: the cookies of a request are the stored tokens that are truthy
get_auth(stored) ==
    [access  |-> IF stored.access # NULL THEN stored.access ELSE NULL,
     refresh |-> IF stored.refresh # NULL THEN stored.refresh ELSE NULL,
     csrf    |-> IF stored.csrf # NULL THEN stored.csrf ELSE NULL]

\* a client that refreshes on every error status
NeedsRefresh_anyError(code) == code >= 400

\* if resp.status_code == 401
NeedsRefresh(code) == code = 401

\* Response.raise_for_status raises for the 4xx and 5xx statuses
RaisesForStatus(code) == code >= 400

\* ---- the classifier's ill-formed outputs -------------------------------------
NotAString == "NOT_A_STRING"

\* JSON texts by shape: an object or another JSON value; the "intent" and
\* "language" values; the entries of "intents"
OddOutputs ==
    [object : BOOLEAN, intent : {"MULTI", "BOOKING", NotAString},
     language : {"English", NotAString},
     intents : {"STRINGS", "NOT_STRINGS"}]

\* parsed.get(...) on a value that is no dict, .strip() on a value that is no
\* str: AttributeError, which  except json.JSONDecodeError  does not catch
ParseRaises(raw) ==
    IF ~raw.object THEN "JSON_NOT_OBJECT"
    ELSE IF raw.intent = NotAString THEN "INTENT_NOT_STRING"
    ELSE IF raw.language = NotAString THEN "LANGUAGE_NOT_STRING"
    ELSE NULL

\* i.strip() over the entries of "intents" in CASE 0
PlanRaises(raw) ==
    IF ParseRaises(raw) = NULL /\ Contains(raw.intent, "MULTI")
       /\ raw.intents = "NOT_STRINGS"
    THEN "INTENTS_NOT_STRINGS" ELSE NULL

\* ---- the model gateway: the rate-limit gate ----------------------------------
\* threads that call the model, each on behalf of some conversation
Callers == {"a", "b"}

\* seconds; the clock of the model ticks in seconds
MIN_CALL_INTERVAL == 1

\* a gate that never holds a caller
MustWait_never(elapsed) == FALSE

\* if elapsed < MIN_CALL_INTERVAL
MustWait(elapsed) == elapsed < MIN_CALL_INTERVAL

\* ---- the model gateway: the client cache --------------------------------------
Tiers == {"small", "medium", "large"}

\* the temperature argument; NULL when the caller passes none
Temperatures == {NULL, "0.1", "0.3"}

\* default_temp = 0.3 if model_type == "large" else 0.1
default_temp(model_type) == IF model_type = "large" THEN "0.3" ELSE "0.1"

\* cache_key = f"{model_type}_{temp}"
cache_key(model_type, temperature) ==
    <<model_type,
      IF temperature # NULL THEN temperature ELSE default_temp(model_type)>>

CacheKeys == {cache_key(m, t) : m \in Tiers, t \in Temperatures}

\* ---- concurrent turns over the checkpoint store ------------------------------
\* requests in flight, handled by the server's worker threads
Requests == {"r1", "r2", "r3"}

ThreadIds == {"t1", "t2"}

\* req.thread_id
thread_of(r) == IF r = "r3" THEN "t2" ELSE "t1"

\* what the nodes of one turn write, besides messages
TurnWrites ==
    {w \in [route_lock : {NULL, "BOOKING"},
            pending_intents : {<<>>, <<"CAPACITY">>}] :
        w.pending_intents # <<>> => w.route_lock # NULL}

NoWrites == [route_lock |-> NULL, pending_intents |-> <<>>]

\* the channels of a thread nobody has written to
EmptyCheckpoint == [messages |-> <<>>, route_lock |-> NULL,
                    pending_intents |-> <<>>]

\* the input of chat() applied to the loaded state: add_messages appends
WithInput(state, r) ==
    [state EXCEPT !.messages = Append(@, <<"human", r>>)]

\* the updates of the nodes applied to the state the run holds: messages is
\* appended to, the other channels are replaced
WithUpdates(state, r, w) ==
    [messages |-> Append(state.messages, <<"ai", r>>),
     route_lock |-> w.route_lock,
     pending_intents |-> w.pending_intents]

\* one whole turn run alone on a stored state
TurnAlone(state, r, w) == WithUpdates(WithInput(state, r), r, w)

\* ---- booking tools: the date range of a query -----------------------------------
\* dates are day numbers; strftime("%Y-%m-%d") of a date
Iso(day) == [kind |-> "iso", day |-> day]

\* a date argument the model left out, or passed empty
NoDate == [kind |-> "none", day |-> 0]

\* a date argument given as a word
DateText(text) == [kind |-> text, day |-> 0]

DateArgs ==
    {NoDate, DateText("today"), DateText(" Tomorrow"), DateText("YESTERDAY"),
     DateText("next week")}
        \cup {Iso(d) : d \in 0..MaxDay}

\* (value or "").strip().upper() on the words above
DateUpper(text) ==
    CASE text = "today" -> "TODAY"
      [] text = " Tomorrow" -> "TOMORROW"
      [] text = "next week" -> "NEXT WEEK"
      [] OTHER -> text

\* _resolve_date: relative words become dates, anything else is passed on
_resolve_date(value, today) ==
    LET v == DateUpper(value.kind)
    IN  IF v = "TODAY" THEN Iso(today)
        ELSE IF v = "TOMORROW" THEN Iso(today + 1)
        ELSE IF v = "YESTERDAY" THEN Iso(today - 1)
        ELSE value

\* get_bookings_by_user: today + datetime.timedelta(days=7)
DefaultEnd_user(today) == today + 7

\* a week, as the default of every tool
DefaultEnd_week(today) == today + 7

\* get_all_bookings: today + datetime.timedelta(days=3)
DefaultEnd_all(today) == today + 3

\* startDate and endDate of the query
DateRange(start_date, end_date, today, default_end) ==
    [startDate |-> IF start_date # NoDate THEN _resolve_date(start_date, today)
                   ELSE Iso(today),
     endDate |-> IF end_date # NoDate THEN _resolve_date(end_date, today)
                 ELSE Iso(default_end)]

NoQuery == [startDate |-> NoDate, endDate |-> NoDate]

\* ---- state -------------------------------------------------------------------
VARIABLES
    \* AgentState, as checkpointed for the thread
    messages, current_intent, language_detected, draft_response, route_lock,
    pending_intents, user_id, user_role, terminal_id, carrier_id, ui_payload,
    \* position of the graph run: IDLE between turns, __end__ once the graph
    \* has finished and chat has not yet built its response
    node,
    \* what happened in the turn in progress (or the last one, while IDLE)
    path,              \* nodes that have run, in order
    classification,    \* what classify_intent_and_language returned
    lock_at_start,     \* route_lock when the turn started
    pending_at_start,  \* pending_intents when the turn started
    turn_base,         \* Len(messages) before the turn's HumanMessage
    decisions,         \* tool_calls of the first model decision of each visit
    executed,          \* tools executed, with the filters sent to the backend
    queue_set,         \* pending_intents as the orchestrator left it
    llm_calls,         \* model invocations made so far in the turn
    \* the ChatResponse last returned
    response,
    \* calls that fail
    backend_up,        \* the data service answers during this turn
    failure,           \* the node and the exception that ended the turn
    prev_failed,       \* the turn before this one ended in an exception
    prefetched,        \* the pre-fetches of this turn
    \* api_client: the api_get call in progress and the token store
    api_pc,            \* where api_get stands
    gets,              \* GET requests the call has issued
    refreshes,         \* refresh_tokens calls the call has made
    first_status,      \* status of the first response (0: none yet)
    status_code,       \* status of the response api_get holds
    api_result,        \* how the call ended
    api_calls,         \* api_get calls started so far
    tokens,            \* runtime_tokens.json
    sent,              \* the cookies of the latest GET of the call
    sent_first,        \* the cookies of the first GET of the call
    issued,            \* successful refreshes so far
    given,             \* resp.cookies of the latest successful refresh
    tokens_before,     \* the stored tokens before that refresh
    \* model gateway: the rate-limit gate
    now,               \* time.time()
    last_call_time,    \* _last_call_time
    rate_lock,         \* the caller holding _rate_lock
    gate_pc,           \* where each caller stands
    wake_at,           \* when a sleeping caller's time.sleep returns
    stamps,            \* the times written to _last_call_time
    call_starts,        \* the times at which llm.invoke was entered
    \* model gateway: the client cache
    llm_cache,         \* _llm_cache: cache_key -> client
    llm_pc,            \* where each caller of get_llm stands
    llm_key,           \* the cache_key of the call in progress
    llm_new,           \* the client the call in progress has constructed
    constructed,       \* the cache_key of every client constructed, in order
    returned,          \* <<cache_key, client>> of every return of get_llm
    llm_calls_begun,    \* get_llm calls so far
    \* concurrent turns
    checkpoints,       \* the latest checkpoint of every thread_id
    inv_pc,            \* where each graph.invoke stands
    inv_state,         \* the channel values each running invoke holds
    inv_writes,         \* what the nodes of each turn wrote
    \* booking tools
    today,             \* datetime.date.today()
    start_date,        \* the start_date argument of the call
    end_date,          \* the end_date argument of the call
    called,            \* the tool that was called
    params             \* startDate and endDate sent to GET /api/bookings

agent_state == <<messages, current_intent, language_detected, draft_response,
                 route_lock, pending_intents, user_id, user_role, terminal_id,
                 carrier_id, ui_payload>>

turn_log == <<path, classification, lock_at_start, pending_at_start,
              turn_base, decisions, executed, queue_set, llm_calls>>

fault_log == <<backend_up, failure, prev_failed, prefetched>>

api_vars == <<api_pc, gets, refreshes, first_status, status_code,
              api_result, api_calls, tokens, sent, sent_first, issued,
              given, tokens_before>>

gate_vars == <<now, last_call_time, rate_lock, gate_pc, wake_at, stamps,
               call_starts>>

cache_vars == <<llm_cache, llm_pc, llm_key, llm_new, constructed, returned,
                llm_calls_begun>>

store_vars == <<checkpoints, inv_pc, inv_state, inv_writes>>

dates_vars == <<today, start_date, end_date, called, params>>

\* the conversation, and the components a conversation step leaves alone
conv_vars == <<agent_state, node, turn_log, response, fault_log>>

leaf_vars == <<api_vars, gate_vars, cache_vars, store_vars, dates_vars>>

outside_api == <<conv_vars, gate_vars, cache_vars, store_vars, dates_vars>>

outside_gate == <<conv_vars, api_vars, cache_vars, store_vars, dates_vars>>

outside_cache == <<conv_vars, api_vars, gate_vars, store_vars, dates_vars>>

outside_store == <<conv_vars, api_vars, gate_vars, cache_vars, dates_vars>>

outside_dates == <<conv_vars, api_vars, gate_vars, cache_vars, store_vars>>

vars == <<conv_vars, leaf_vars>>

NoFailure == [node |-> "NONE", cause |-> "NONE"]

NoResponse ==
    [message |-> Msg("none", "NONE", "", "", NoDraft), ui_payload |-> NoPayload,
     route_lock |-> NULL, current_intent |-> NULL, language_detected |-> NULL]

Init ==
    /\ messages = <<>>
    /\ current_intent = NULL
    /\ language_detected = NULL
    /\ draft_response = NoDraft
    /\ route_lock = NULL
    /\ pending_intents = <<>>
    /\ user_id = NULL
    /\ user_role = NULL
    /\ terminal_id = NULL
    /\ carrier_id = NULL
    /\ ui_payload = NoPayload
    /\ node = "IDLE"
    /\ path = <<>>
    /\ classification = NoClassification
    /\ lock_at_start = NULL
    /\ pending_at_start = <<>>
    /\ turn_base = 0
    /\ decisions = <<>>
    /\ executed = <<>>
    /\ queue_set = <<>>
    /\ llm_calls = 0
    /\ response = NoResponse
    /\ backend_up = TRUE
    /\ failure = NoFailure
    /\ prev_failed = FALSE
    /\ prefetched = <<>>
    /\ api_pc = "idle"
    /\ gets = 0
    /\ refreshes = 0
    /\ first_status = 0
    /\ status_code = 0
    /\ api_result = "NONE"
    /\ api_calls = 0
    /\ tokens = StoredTokens
    /\ sent = NoCookies
    /\ sent_first = NoCookies
    /\ issued = 0
    /\ given = NoCookies
    /\ tokens_before = StoredTokens
    /\ now = MIN_CALL_INTERVAL
    /\ last_call_time = 0
    /\ rate_lock = NULL
    /\ gate_pc = [c \in Callers |-> "idle"]
    /\ wake_at = [c \in Callers |-> 0]
    /\ stamps = <<>>
    /\ call_starts = <<>>
    /\ llm_cache = [k \in {} |-> 0]
    /\ llm_pc = [c \in Callers |-> "idle"]
    /\ llm_key = [c \in Callers |-> NULL]
    /\ llm_new = [c \in Callers |-> 0]
    /\ constructed = <<>>
    /\ returned = {}
    /\ llm_calls_begun = 0
    /\ checkpoints = [t \in ThreadIds |-> EmptyCheckpoint]
    /\ inv_pc = [r \in Requests |-> "idle"]
    /\ inv_state = [r \in Requests |-> EmptyCheckpoint]
    /\ inv_writes = [r \in Requests |-> NoWrites]
    /\ today = 0
    /\ start_date = NoDate
    /\ end_date = NoDate
    /\ called = NULL
    /\ params = NoQuery

\* ---- chat: the start of an external turn -------------------------------------
\* identity resolution may fail and then yields None
ChatInvoke(history, backends) ==
    /\ node = "IDLE"
    /\ Len(messages) <= history
    /\ \E up \in backends, uid \in UserIds, role \in RequestRoles,
          found \in BOOLEAN :
         LET resolved == found /\ RequestOutcome(up) = "OK"
         IN
         /\ backend_up' = up
         /\ user_id' = uid
         /\ user_role' = role
         /\ terminal_id' = IF role = "OPERATOR" /\ resolved
                           THEN TerminalOf(uid) ELSE NULL
         /\ carrier_id' = IF role = "CARRIER" /\ resolved
                          THEN CarrierOf(uid) ELSE NULL
    /\ messages' = add_messages(messages, <<HumanMessage>>)
    /\ node' = "ORCHESTRATOR"
    /\ path' = <<>>
    /\ classification' = NoClassification
    /\ lock_at_start' = route_lock
    /\ pending_at_start' = pending_intents
    /\ turn_base' = Len(messages)
    /\ decisions' = <<>>
    /\ executed' = <<>>
    /\ queue_set' = <<>>
    /\ llm_calls' = 0
    /\ response' = NoResponse
    /\ failure' = NoFailure
    /\ prev_failed' = (failure # NoFailure)
    /\ prefetched' = <<>>
    /\ UNCHANGED <<current_intent, language_detected, draft_response,
                   route_lock, pending_intents, ui_payload, leaf_vars>>

\* turns during which the data service answers
chat_invoke == ChatInvoke(MaxHistory, {TRUE})

\* the same handler on threads with a shorter history
chat_invoke_short == ChatInvoke(MaxLiveHistory, {TRUE})

\* the same handler, the data service answering or not
chat_invoke_faulty == ChatInvoke(MaxFaultHistory, BOOLEAN)

\* a Command whose update never carries a draft
ApplyDraft_absent(cmd, draft) == draft

\* Command(update=...): a key the update carries replaces the field, a key it
\* does not carry leaves the field as it was
ApplyDraft(cmd, draft) ==
    IF cmd.writes_draft THEN cmd.draft_response ELSE draft

\* ---- ORCHESTRATOR node -------------------------------------------------------
orchestrator_node ==
    /\ node = "ORCHESTRATOR"
    /\ \E raw \in ClassifierOutputs :
         LET c   == classify_intent_and_language(raw)
             cmd == OrchestratorCommand(c, pending_intents, route_lock,
                                        user_role)
         IN  /\ classification' = c
             /\ current_intent' = cmd.current_intent
             /\ language_detected' = cmd.language_detected
             /\ pending_intents' = cmd.pending_intents
             /\ draft_response' = ApplyDraft(cmd, draft_response)
             /\ queue_set' = cmd.pending_intents
             /\ node' = cmd.goto
    /\ path' = Append(path, "ORCHESTRATOR")
    /\ llm_calls' = llm_calls + 1
    /\ UNCHANGED <<messages, route_lock, user_id, user_role, terminal_id,
                   carrier_id, ui_payload, lock_at_start, pending_at_start,
                   turn_base, decisions, executed, response, fault_log,
                   leaf_vars>>

\* ---- BOOKING / CAPACITY nodes --------------------------------------------------
\* one visit of a specialist: d is the model's decision, final the text of the
\* synthesis call when one is made
SpecialistVisit(self, d, final) ==
    LET calls == CallsToExecute(d.tool_calls)
        outcome == RequestOutcome(backend_up)
        pre == Prefetches(self, user_role)
        runs(i) == Executes(self, user_role, calls[i].name)
        ran == {i \in 1..Len(calls) : runs(i)}
        entry(i) ==
            LET rq == ToolRequest(self, calls[i], carrier_id, terminal_id)
            IN  [node |-> self, visit |-> Len(decisions) + 1, idx |-> i,
                 tool |-> calls[i].name, backend |-> rq.backend,
                 carrierId |-> rq.carrierId, terminalId |-> rq.terminalId,
                 failed |-> rq.backend /\ outcome # "OK"]
        ranSeq == SelectSeq([i \in 1..Len(calls) |-> i], LAMBDA i : runs(i))
        tool_outputs ==
            [i \in 1..Len(calls) |->
                Msg("tool", self, calls[i].name,
                    IF runs(i)
                    THEN ToolText(calls[i].name, entry(i).backend, outcome)
                    ELSE "UNKNOWN_TOOL", NoDraft)]
        forms == {i \in ran : calls[i].name = "prepare_booking_form"}
        ui_signal == forms # {}
        needs_followup ==
            \E i \in ran : NeedsFollowup(calls[i])
        decisionMsg == Msg("ai", self, "", d.content, NoDraft)
        finalMsg == Msg("ai", self, "", final, NoDraft)
        answer(kind, content) ==
            Draft(self, IF content = "EMPTY" THEN "EMPTY" ELSE kind)
        synthesises == calls # <<>> /\ ~ui_signal /\ ~needs_followup
        raises ==
            /\ outcome = "RAISES"
            /\ pre # <<>> \/ \E i \in ran : entry(i).backend
    IN  IF raises
        THEN /\ node' = "IDLE"
             /\ failure' = [node |-> self, cause |-> "DATA_SERVICE"]
             /\ UNCHANGED <<agent_state, turn_log, response, backend_up,
                            prev_failed, prefetched, leaf_vars>>
        ELSE
        /\ decisions' = Append(decisions, d.tool_calls)
        /\ prefetched' =
             prefetched \o [k \in 1..Len(pre) |->
                              [node |-> self, tool |-> pre[k],
                               failed |-> outcome # "OK"]]
        /\ llm_calls' = llm_calls + (IF synthesises THEN 2 ELSE 1)
        /\ executed' = executed \o [k \in 1..Len(ranSeq) |-> entry(ranSeq[k])]
        /\ IF calls = <<>>
           THEN /\ messages' = add_messages(messages, <<decisionMsg>>)
                /\ draft_response' = answer("ANSWER", d.content)
                /\ route_lock' = NULL
                /\ UNCHANGED ui_payload
           ELSE IF ui_signal
           THEN /\ messages' =
                     add_messages(messages, <<decisionMsg>> \o tool_outputs)
                /\ draft_response' = Draft(self, "FORM_TEXT")
                /\ ui_payload' =
                     FormPayload(calls[CHOOSE i \in forms :
                                         \A j \in forms : i <= j])
                /\ route_lock' = NULL
           ELSE IF needs_followup
           THEN /\ messages' =
                     add_messages(messages, <<decisionMsg>> \o tool_outputs)
                /\ draft_response' = Draft(self, "QUESTION")
                /\ route_lock' = self
                /\ UNCHANGED ui_payload
           ELSE /\ messages' =
                     add_messages(messages, <<decisionMsg>> \o tool_outputs
                                                \o <<finalMsg>>)
                /\ draft_response' = answer("SYNTHESIS", final)
                /\ route_lock' = NULL
                /\ UNCHANGED ui_payload
        /\ node' = "GUARDIAN"
        /\ path' = Append(path, self)
        /\ UNCHANGED <<current_intent, language_detected, pending_intents,
                       user_id, user_role, terminal_id, carrier_id,
                       classification, lock_at_start, pending_at_start,
                       turn_base, queue_set, response, backend_up, failure,
                       prev_failed, leaf_vars>>

\* the synthesis call, when made, is taken to return text
booking_agent_node ==
    /\ node = "BOOKING"
    /\ \E d \in Decisions : SpecialistVisit("BOOKING", d, "TEXT")

capacity_node ==
    /\ node = "CAPACITY"
    /\ \E d \in Decisions : SpecialistVisit("CAPACITY", d, "TEXT")

\* a guardian that leaves the specialist's draft in the state
GuardianDraftUpdate_kept(draft) == draft

\* "draft_response": None in the guardian's update
GuardianDraftUpdate(draft) == NoDraft

\* a guardian that releases the lock when it answers
GuardianLockUpdate_cleared(lock) == NULL

\* route_lock = state.get("route_lock", None), written back as it was read
GuardianLockUpdate(lock) == lock

\* ---- GUARDIAN node -----------------------------------------------------------
GuardianNode(table) ==
    /\ node = "GUARDIAN"
    /\ path' = Append(path, "GUARDIAN")
    /\ IF ~PermissionCheck(table, user_role, current_intent)
       THEN /\ messages' =
                 add_messages(messages,
                              <<Msg("ai", "GUARDIAN",
                                    DenialLabel(table, user_role),
                                    "ACCESS_DENIED", NoDraft)>>)
            /\ draft_response' = NoDraft
            /\ ui_payload' = NoPayload
            /\ node' = "__end__"
            /\ UNCHANGED <<current_intent, pending_intents, route_lock,
                           llm_calls>>
       ELSE LET draft == IF Falsy(draft_response)
                         THEN Draft("GUARDIAN", "REPHRASE")
                         ELSE draft_response
                cmd == GuardianCommand(pending_intents, route_lock,
                                       current_intent)
            IN  /\ messages' =
                      add_messages(messages,
                                   <<Msg("ai", "GUARDIAN", "", "FINAL",
                                         draft)>>)
                /\ draft_response' = GuardianDraftUpdate(draft_response)
                /\ route_lock' = GuardianLockUpdate(route_lock)
                /\ ui_payload' = IF ui_payload # NoPayload THEN ui_payload
                                 ELSE NoPayload
                /\ pending_intents' = cmd.pending_intents
                /\ current_intent' = cmd.current_intent
                /\ llm_calls' = llm_calls + 1
                /\ node' = cmd.goto
    /\ UNCHANGED <<language_detected, user_id, user_role, terminal_id,
                   carrier_id, classification, lock_at_start,
                   pending_at_start, turn_base, decisions, executed,
                   queue_set, response, fault_log, leaf_vars>>

guardian_node == GuardianNode(ShippedTable)

\* the guardian over a table that denies some role an intent
guardian_node_restricted == GuardianNode(RestrictedTable)

\* ---- chat: the response -------------------------------------------------------
\* a response built from the message before the last one
ResponseMessage_previous(msgs) == msgs[Len(msgs) - 1]

\* result["messages"][-1]
ResponseMessage(msgs) == msgs[Len(msgs)]

chat_return ==
    /\ node = "__end__"
    /\ response' = [message |-> ResponseMessage(messages),
                    ui_payload |-> ui_payload,
                    route_lock |-> route_lock,
                    current_intent |-> current_intent,
                    language_detected |-> language_detected]
    /\ node' = "IDLE"
    /\ UNCHANGED <<agent_state, turn_log, fault_log, leaf_vars>>

Next ==
    \/ chat_invoke
    \/ orchestrator_node
    \/ booking_agent_node
    \/ capacity_node
    \/ guardian_node
    \/ chat_return

Spec == Init /\ [][Next]_vars

NextDenial ==
    \/ chat_invoke_short
    \/ orchestrator_node
    \/ booking_agent_node
    \/ capacity_node
    \/ guardian_node_restricted
    \/ chat_return

SpecDenial == Init /\ [][NextDenial]_vars

\* ---- turns that end in an exception --------------------------------------------
\* the node's model call fails after its retries: the exception leaves
\* graph.invoke and chat, the node's update is not written, and the thread
\* keeps the checkpoint of the nodes that ran before
model_call_raises ==
    /\ node \in {"ORCHESTRATOR", "BOOKING", "CAPACITY", "GUARDIAN"}
    /\ node = "GUARDIAN" => check_permission(user_role, current_intent)
    /\ failure' = [node |-> node, cause |-> "MODEL_CALL"]
    /\ node' = "IDLE"
    /\ UNCHANGED <<agent_state, turn_log, response, backend_up, prev_failed,
                   prefetched, leaf_vars>>

\* the classifier returns JSON of a shape the orchestrator does not expect
classifier_output_raises ==
    /\ node = "ORCHESTRATOR"
    /\ \E raw \in OddOutputs :
         LET cause == IF ParseRaises(raw) # NULL THEN ParseRaises(raw)
                      ELSE PlanRaises(raw)
         IN  /\ cause # NULL
             /\ failure' = [node |-> "ORCHESTRATOR", cause |-> cause]
    /\ node' = "IDLE"
    /\ UNCHANGED <<agent_state, turn_log, response, backend_up, prev_failed,
                   prefetched, leaf_vars>>

NextFaults ==
    \/ chat_invoke_faulty
    \/ orchestrator_node
    \/ classifier_output_raises
    \/ booking_agent_node
    \/ capacity_node
    \/ guardian_node
    \/ model_call_raises
    \/ chat_return

SpecFaults == Init /\ [][NextFaults]_vars

\* ---- api_get -------------------------------------------------------------------
\* a tool or a resolver calls api_get
api_get_call ==
    /\ api_pc = "idle"
    /\ api_calls < MaxApiCalls
    /\ api_calls' = api_calls + 1
    /\ api_pc' = "get"
    /\ gets' = 0
    /\ refreshes' = 0
    /\ first_status' = 0
    /\ status_code' = 0
    /\ api_result' = "NONE"
    /\ sent' = NoCookies
    /\ sent_first' = NoCookies
    /\ UNCHANGED <<outside_api, tokens, issued, given, tokens_before>>

\* resp = requests.get(...)
api_get_first ==
    /\ api_pc = "get"
    /\ \E got \in GetOutcomes :
         /\ gets' = gets + 1
         /\ first_status' = got
         /\ status_code' = got
         /\ IF got = 0
            THEN api_pc' = "idle" /\ api_result' = "RAISED"
            ELSE /\ api_pc' = IF NeedsRefresh(got) THEN "refresh" ELSE "check"
                 /\ UNCHANGED api_result
    /\ sent' = get_auth(tokens)
    /\ sent_first' = get_auth(tokens)
    /\ UNCHANGED <<outside_api, refreshes, api_calls, tokens, issued, given,
                   tokens_before>>

\* if refresh_tokens(): a failed POST returns False, a successful one saves
\* the cookies it set
api_refresh_tokens ==
    /\ api_pc = "refresh"
    /\ refreshes' = refreshes + 1
    /\ \E posted \in PostOutcomes, cookies \in RefreshCookies :
         IF posted = 0 \/ RaisesForStatus(posted)
         THEN /\ api_pc' = "check"
              /\ UNCHANGED <<tokens, issued, given, tokens_before>>
         ELSE /\ tokens' = save_tokens(tokens,
                                       ResponseCookies(cookies, issued + 1))
              /\ issued' = issued + 1
              /\ given' = ResponseCookies(cookies, issued + 1)
              /\ tokens_before' = tokens
              /\ api_pc' = "retry"
    /\ UNCHANGED <<outside_api, gets, first_status, status_code, api_result,
                   api_calls, sent, sent_first>>

\* the second requests.get, with the refreshed tokens
api_get_retry ==
    /\ api_pc = "retry"
    /\ \E got \in GetOutcomes :
         /\ gets' = gets + 1
         /\ status_code' = got
         /\ IF got = 0
            THEN api_pc' = "idle" /\ api_result' = "RAISED"
            ELSE api_pc' = "check" /\ UNCHANGED api_result
    /\ sent' = get_auth(tokens)
    /\ UNCHANGED <<outside_api, refreshes, first_status, api_calls, tokens,
                   sent_first, issued, given, tokens_before>>

\* resp.raise_for_status(); return resp
api_raise_for_status ==
    /\ api_pc = "check"
    /\ api_result' = IF RaisesForStatus(status_code) THEN "RAISED"
                     ELSE "RETURNED"
    /\ api_pc' = "idle"
    /\ UNCHANGED <<outside_api, gets, refreshes, first_status, status_code,
                   api_calls, tokens, sent, sent_first, issued, given,
                   tokens_before>>

NextApi ==
    \/ api_get_call
    \/ api_get_first
    \/ api_refresh_tokens
    \/ api_get_retry
    \/ api_raise_for_status

SpecApi == Init /\ [][NextApi]_vars

\* graph.invoke runs the node a Command names as soon as the previous node has
\* returned, and every model and data-service call is taken to return
NextLive ==
    \/ chat_invoke_short
    \/ orchestrator_node
    \/ booking_agent_node
    \/ capacity_node
    \/ guardian_node
    \/ chat_return

SpecLive ==
    /\ Init /\ [][NextLive]_vars
    /\ WF_vars(orchestrator_node)
    /\ WF_vars(booking_agent_node)
    /\ WF_vars(capacity_node)
    /\ WF_vars(guardian_node)

\* ---- _rate_limit_wait ------------------------------------------------------------
\* with _rate_lock: now = time.time(); elapsed = now - _last_call_time
gate_enter(c) ==
    /\ gate_pc[c] = "idle"
    /\ rate_lock = NULL
    /\ Len(stamps) + Cardinality({d \in Callers : gate_pc[d] = "released"})
         < MaxGateCalls
    /\ rate_lock' = c
    /\ LET elapsed == now - last_call_time
       IN  IF MustWait(elapsed)
           THEN /\ gate_pc' = [gate_pc EXCEPT ![c] = "sleeping"]
                /\ wake_at' = [wake_at EXCEPT
                                 ![c] = now + (MIN_CALL_INTERVAL - elapsed)]
           ELSE /\ gate_pc' = [gate_pc EXCEPT ![c] = "stamping"]
                /\ UNCHANGED wake_at
    /\ UNCHANGED <<outside_gate, now, last_call_time, stamps, call_starts>>

\* time.sleep(wait) returns, no earlier than asked
gate_wake(c) ==
    /\ gate_pc[c] = "sleeping"
    /\ now >= wake_at[c]
    /\ gate_pc' = [gate_pc EXCEPT ![c] = "stamping"]
    /\ UNCHANGED <<outside_gate, now, last_call_time, rate_lock, wake_at,
                   stamps, call_starts>>

\* _last_call_time = time.time(), and the lock is released
gate_stamp(c) ==
    /\ gate_pc[c] = "stamping"
    /\ last_call_time' = now
    /\ stamps' = Append(stamps, now)
    /\ rate_lock' = NULL
    /\ gate_pc' = [gate_pc EXCEPT ![c] = "released"]
    /\ UNCHANGED <<outside_gate, now, wake_at, call_starts>>

\* the caller, back from _rate_limit_wait, enters llm.invoke
call_start(c) ==
    /\ gate_pc[c] = "released"
    /\ call_starts' = Append(call_starts, now)
    /\ gate_pc' = [gate_pc EXCEPT ![c] = "idle"]
    /\ wake_at' = [wake_at EXCEPT ![c] = 0]
    /\ UNCHANGED <<outside_gate, now, last_call_time, rate_lock, stamps>>

\* time passes
tick ==
    /\ now < MaxTime
    /\ now' = now + 1
    /\ UNCHANGED <<outside_gate, last_call_time, rate_lock, gate_pc, wake_at,
                   stamps, call_starts>>

NextGate ==
    \/ \E c \in Callers : gate_enter(c)
    \/ \E c \in Callers : gate_wake(c)
    \/ \E c \in Callers : gate_stamp(c)
    \/ \E c \in Callers : call_start(c)
    \/ tick

SpecGate == Init /\ [][NextGate]_vars

\* ---- get_llm ---------------------------------------------------------------------
\* with _llm_lock: if cache_key in _llm_cache: return _llm_cache[cache_key]
get_llm_lookup(c) ==
    /\ llm_pc[c] = "idle"
    /\ llm_calls_begun < MaxLlmCalls
    /\ llm_calls_begun' = llm_calls_begun + 1
    /\ \E m \in Tiers, t \in Temperatures :
          LET k == cache_key(m, t)
          IN  IF k \in DOMAIN llm_cache
              THEN /\ returned' = returned \cup {<<k, llm_cache[k]>>}
                   /\ UNCHANGED <<llm_pc, llm_key>>
              ELSE /\ llm_pc' = [llm_pc EXCEPT ![c] = "constructing"]
                   /\ llm_key' = [llm_key EXCEPT ![c] = k]
                   /\ UNCHANGED returned
    /\ UNCHANGED <<outside_cache, llm_cache, llm_new, constructed>>

\* llm = ChatMistralAI(...), outside the lock
get_llm_construct(c) ==
    /\ llm_pc[c] = "constructing"
    /\ constructed' = Append(constructed, llm_key[c])
    /\ llm_new' = [llm_new EXCEPT ![c] = Len(constructed) + 1]
    /\ llm_pc' = [llm_pc EXCEPT ![c] = "storing"]
    /\ UNCHANGED <<outside_cache, llm_cache, llm_key, returned,
                   llm_calls_begun>>

\* with _llm_lock: _llm_cache[cache_key] = llm; return llm
get_llm_store(c) ==
    /\ llm_pc[c] = "storing"
    /\ llm_cache' = [k \in DOMAIN llm_cache \cup {llm_key[c]} |->
                       IF k = llm_key[c] THEN llm_new[c] ELSE llm_cache[k]]
    /\ returned' = returned \cup {<<llm_key[c], llm_new[c]>>}
    /\ llm_pc' = [llm_pc EXCEPT ![c] = "idle"]
    /\ llm_key' = [llm_key EXCEPT ![c] = NULL]
    /\ llm_new' = [llm_new EXCEPT ![c] = 0]
    /\ UNCHANGED <<outside_cache, constructed, llm_calls_begun>>

NextCache ==
    \/ \E c \in Callers : get_llm_lookup(c)
    \/ \E c \in Callers : get_llm_construct(c)
    \/ \E c \in Callers : get_llm_store(c)

SpecCache == Init /\ [][NextCache]_vars

\* ---- graph.invoke on a shared thread_id -----------------------------------------
\* graph.invoke reads the latest checkpoint of the thread, applies the input
\* and saves the input checkpoint
invoke_start(r) ==
    /\ inv_pc[r] = "idle"
    /\ LET loaded == WithInput(checkpoints[thread_of(r)], r)
       IN  /\ inv_state' = [inv_state EXCEPT ![r] = loaded]
           /\ checkpoints' = [checkpoints EXCEPT ![thread_of(r)] = loaded]
    /\ inv_pc' = [inv_pc EXCEPT ![r] = "running"]
    /\ UNCHANGED <<outside_store, inv_writes>>

\* the nodes run on the state the invoke holds, and the result is saved as the
\* thread's latest checkpoint
invoke_finish(r) ==
    /\ inv_pc[r] = "running"
    /\ \E w \in TurnWrites :
          LET result == WithUpdates(inv_state[r], r, w)
          IN  /\ inv_state' = [inv_state EXCEPT ![r] = result]
              /\ inv_writes' = [inv_writes EXCEPT ![r] = w]
              /\ checkpoints' = [checkpoints EXCEPT ![thread_of(r)] = result]
    /\ inv_pc' = [inv_pc EXCEPT ![r] = "done"]
    /\ UNCHANGED outside_store

NextStore ==
    \/ \E r \in Requests : invoke_start(r)
    \/ \E r \in Requests : invoke_finish(r)

SpecStore == Init /\ [][NextStore]_vars

\* ---- get_all_bookings / get_bookings_by_user: the date range ----------------------
\* one call of the tool, on some day, with the date arguments the model gave
get_all_bookings ==
    /\ \E day \in 0..MaxDay, given_start \in DateArgs, given_end \in DateArgs :
          /\ today' = day
          /\ start_date' = given_start
          /\ end_date' = given_end
          /\ params' = DateRange(given_start, given_end, day,
                                 DefaultEnd_all(day))
    /\ called' = "get_all_bookings"
    /\ UNCHANGED outside_dates

get_bookings_by_user ==
    /\ \E day \in 0..MaxDay, given_start \in DateArgs, given_end \in DateArgs :
          /\ today' = day
          /\ start_date' = given_start
          /\ end_date' = given_end
          /\ params' = DateRange(given_start, given_end, day,
                                 DefaultEnd_user(day))
    /\ called' = "get_bookings_by_user"
    /\ UNCHANGED outside_dates

NextDates ==
    \/ get_all_bookings
    \/ get_bookings_by_user

SpecDates == Init /\ [][NextDates]_vars

\* ==== properties ================================================================
\* the graph has finished the turn (response not yet built, or just returned)
TurnEnded == node = "__end__" \/ (node = "IDLE" /\ response # NoResponse)

\* the node the orchestrator routed this turn to, once it has run
OrchestratorRan == Len(path) >= 1
OrchestratorDest == IF Len(path) >= 2 THEN path[2] ELSE node

FormExecuted ==
    \E i \in 1..Len(executed) : executed[i].tool = "prepare_booking_form"

\* visit v of this turn asked the user a clarifying question
AskedFollowup(v) ==
    /\ decisions[v] # <<>>
    /\ decisions[v][1].name = "communicate_with_user"
    /\ decisions[v][1].needs_followup

\* C1: a turn that starts with route_lock = BOOKING (CAPACITY) is routed by the
\* orchestrator to BOOKING (CAPACITY), whatever the classifier returned.
C1_LockForcesRoute ==
    (OrchestratorRan /\ lock_at_start \in valid_nodes)
        => OrchestratorDest = lock_at_start

\* C2: at the end of a turn in which prepare_booking_form was not executed,
\* ui_payload is null in the state and in the response.
C2_PayloadResetWithoutForm ==
    (TurnEnded /\ ~FormExecuted)
        => /\ ui_payload = NoPayload
           /\ node = "IDLE" => response.ui_payload = NoPayload

BookingFetchTools ==
    {"get_bookings_by_user", "get_all_bookings", "get_bookings_by_terminal_id"}

\* C3: in a CARRIER (OPERATOR) turn every bookings query sent to the data
\* service is filtered by the resolved carrier_id (terminal_id) of the state,
\* never unfiltered and never by an id the model supplied.
C3_TenantScopedQueries ==
    \A i \in 1..Len(executed) :
        LET e == executed[i]
        IN  /\ (user_role = "CARRIER" /\ e.tool \in BookingFetchTools)
                 => (e.carrierId = carrier_id /\ e.carrierId # NULL)
            /\ (user_role = "OPERATOR" /\ e.tool \in BookingFetchTools)
                 => (e.terminalId = terminal_id /\ e.terminalId # NULL)

\* C4: every tool a specialist executes belongs to the toolset bound for the
\* turn's user_role.
C4_OnlyBoundToolsExecuted ==
    \A i \in 1..Len(executed) :
        executed[i].tool \in Toolset(executed[i].node, user_role)

\* C5: a specialist visit executes at most one tool and only the first call of
\* the model's decision; it appends exactly one tool-result message when the
\* decision carries calls (none otherwise), named after the first call; no
\* other step executes a tool, so dropped calls are never executed later.
C5_Step ==
    LET added == SubSeq(messages', Len(messages) + 1, Len(messages'))
        tools == {k \in 1..Len(added) : added[k].type = "tool"}
        ran   == Len(executed') - Len(executed)
    IN  IF node \in valid_nodes
        THEN LET tc == decisions'[Len(decisions')]
             IN  /\ ran <= 1
                 /\ tc = <<>> => (tools = {} /\ ran = 0)
                 /\ tc # <<>> =>
                      /\ Cardinality(tools) = 1
                      /\ \A k \in tools : added[k].name = tc[1].name
                      /\ ran = 1 =>
                           /\ executed'[Len(executed')].idx = 1
                           /\ executed'[Len(executed')].tool = tc[1].name
        ELSE ran <= 0

C5_SingleToolPerVisit == [][C5_Step]_vars

\* a turn has ended in which the model's decision carried several calls
C5_Witness ==
    /\ node = "__end__"
    /\ \E v \in 1..Len(decisions) : Len(decisions[v]) >= 2
    /\ Len(executed) >= 1

\* C6 (as stated): pending_intents is empty at the end of every external turn.
C6_QueueEmptyAtEveryEnd == TurnEnded => pending_intents = <<>>

\* C6 (amended): pending_intents is empty at the end of every external turn
\* that ends with route_lock null.
C6_QueueEmptyAtUnlockedEnd ==
    (TurnEnded /\ route_lock = NULL) => pending_intents = <<>>

\* a multi-intent chain has run to its end without a lock
C6_Witness ==
    /\ node = "__end__"
    /\ route_lock = NULL
    /\ classification.intent = "MULTI"
    /\ Len(path) = 5

MultiCapacityBooking ==
    /\ classification.intent = "MULTI"
    /\ classification.has_intents
    /\ classification.intents = <<"CAPACITY", "BOOKING">>

ChainCB == <<"ORCHESTRATOR", "CAPACITY", "GUARDIAN", "BOOKING", "GUARDIAN">>

\* C7: after MULTI [CAPACITY, BOOKING], while no specialist has asked a
\* clarifying question, the turn runs CAPACITY, GUARDIAN, BOOKING, GUARDIAN and
\* ends; pending_intents is [BOOKING] until the first guardian pass pops it,
\* and is empty only once BOOKING has been dispatched.
C7_MultiChainOrder ==
    (MultiCapacityBooking /\ ~ \E v \in 1..Len(decisions) : AskedFollowup(v))
        => /\ Len(path) <= 5
           /\ path = SubSeq(ChainCB, 1, Len(path))
           /\ IF Len(path) < 5 THEN node = ChainCB[Len(path) + 1]
              ELSE node \in {"__end__", "IDLE"}
           /\ Len(path) <= 2 => pending_intents = <<"BOOKING">>
           /\ Len(path) >= 3 => pending_intents = <<>>

C7_Witness ==
    /\ MultiCapacityBooking
    /\ ~ \E v \in 1..Len(decisions) : AskedFollowup(v)
    /\ node = "__end__"
    /\ path = ChainCB

\* C8: the message of the response is the last message of the log, appended by
\* the guardian pass that ended the turn, and it renders the draft of the node
\* that ran right before that pass (the last specialist of a chain) or the
\* guardian's own fallback text.
C8_ResponseIsFinalGuardianText ==
    (node = "IDLE" /\ response # NoResponse)
        => LET m == response.message
           IN  /\ m = messages[Len(messages)]
               /\ m.type = "ai"
               /\ m.node = "GUARDIAN"
               /\ path[Len(path)] = "GUARDIAN"
               /\ m.content = "FINAL"
               /\ m.of.by \in {path[Len(path) - 1], "GUARDIAN"}

\* the response of a chain over two different specialists
C8_Witness ==
    /\ node = "IDLE"
    /\ response # NoResponse
    /\ Len(path) = 5
    /\ path[2] # path[4]
    /\ response.message.of.by = path[4]

\* the guardian half of C9: with the queue non-empty and route_lock set the
\* pass ends the turn, pops nothing and leaves route_lock as it found it
C9_GuardianStep ==
    (node = "GUARDIAN" /\ pending_intents # <<>> /\ route_lock # NULL)
        => /\ node' = "__end__"
           /\ route_lock' = route_lock
           /\ pending_intents' = pending_intents

C9_GuardianKeepsLockAndQueue == [][C9_GuardianStep]_vars

\* the consequence C9 draws: the turn that starts with that lock and that
\* queue visits the locked specialist
C9_NextTurnStep ==
    (node = "ORCHESTRATOR" /\ pending_at_start # <<>>
       /\ lock_at_start \in valid_nodes)
        => node' = lock_at_start

\* C9: a guardian pass that finds the queue non-empty and route_lock set ends
\* the turn without popping, route_lock untouched, and so the locked
\* specialist is visited on the next external turn and not in this one.
C9_LockBeatsQueueAtGuardian == [][C9_GuardianStep /\ C9_NextTurnStep]_vars

\* C10: a turn that starts with route_lock set and pending_intents non-empty
\* is routed by the orchestrator to the locked specialist.
C10_LockBeatsQueueAtOrchestrator ==
    (OrchestratorRan /\ lock_at_start \in valid_nodes
       /\ pending_at_start # <<>>)
        => OrchestratorDest = lock_at_start


\* ---- C11 ---------------------------------------------------------------------
Count(seq, x) == Cardinality({i \in 1..Len(seq) : seq[i] = x})

\* C11: within a turn the only node transitions are START -> ORCHESTRATOR,
\* ORCHESTRATOR -> BOOKING | CAPACITY | GUARDIAN, BOOKING -> GUARDIAN,
\* CAPACITY -> GUARDIAN and GUARDIAN -> END | BOOKING | CAPACITY; the
\* orchestrator is entered only from START, so it runs exactly once per turn,
\* and END is reached only from GUARDIAN.
C11_Step ==
    /\ node = "IDLE" => node' \in {"IDLE", "ORCHESTRATOR"}
    /\ node = "ORCHESTRATOR" => node' \in {"BOOKING", "CAPACITY", "GUARDIAN"}
    /\ node \in valid_nodes => node' = "GUARDIAN"
    /\ node = "GUARDIAN" => node' \in {"__end__", "BOOKING", "CAPACITY"}
    /\ node' = "ORCHESTRATOR" => node = "IDLE"
    /\ node' = "__end__" => node = "GUARDIAN"
    /\ node' = "__end__" => /\ Count(path', "ORCHESTRATOR") = 1
                            /\ path'[1] = "ORCHESTRATOR"
                            /\ path'[Len(path')] = "GUARDIAN"

C11_OnlyGraphTransitions == [][C11_Step]_vars

C11_Witness ==
    /\ node = "__end__"
    /\ path = <<"ORCHESTRATOR", "BOOKING", "GUARDIAN", "CAPACITY", "GUARDIAN">>


\* ---- C12 ---------------------------------------------------------------------
SpecialistVisits == Count(path, "BOOKING") + Count(path, "CAPACITY")

\* specialists visited or entered so far in the turn
SpecialistEntries ==
    SpecialistVisits + (IF node \in valid_nodes THEN 1 ELSE 0)

C12_Bound ==
    OrchestratorRan => SpecialistEntries <= 1 + Len(queue_set)

C12_Step ==
    (node = "GUARDIAN" /\ node' \in valid_nodes)
        => Len(pending_intents') < Len(pending_intents)

C13_DraftNullAtEnd == TurnEnded => draft_response = NoDraft

C13_Witness ==
    /\ node = "__end__"
    /\ SpecialistVisits = 2
    /\ messages[Len(messages)].of.kind = "FORM_TEXT"


\* ---- C14 ---------------------------------------------------------------------
\* C14: when a turn fails after the orchestrator or a specialist has written
\* its update, the state the next turn starts from holds no draft_response and
\* no ui_payload, and the next turn's response carries no payload that the
\* next turn did not produce.
C14_NoLeftoverAfterFailedTurn ==
    /\ (prev_failed /\ node = "ORCHESTRATOR")
          => draft_response = NoDraft /\ ui_payload = NoPayload
    /\ (prev_failed /\ node = "IDLE" /\ response # NoResponse
          /\ ~FormExecuted)
          => response.ui_payload = NoPayload


\* ---- C15 ---------------------------------------------------------------------
LastMessage == messages[Len(messages)]

C15_Step ==
    (/\ node = "GUARDIAN"
     /\ current_intent \notin
          (IF user_role \in KnownRoles THEN RestrictedTable[user_role]
           ELSE RestrictedTable["CARRIER"]).allowed_intents)
    => /\ messages' =
            Append(messages,
                   Msg("ai", "GUARDIAN",
                       IF user_role \in KnownRoles
                       THEN RestrictedTable[user_role].label ELSE "User",
                       "ACCESS_DENIED", NoDraft))
       /\ draft_response' = NoDraft
       /\ ui_payload' = NoPayload
       /\ llm_calls' = llm_calls
       /\ pending_intents' = pending_intents
       /\ node' = "__end__"

\* C15: for a role/intent pair the table does not allow, the guardian appends
\* exactly one message, the fixed access-denied text with that role's label,
\* sets draft_response and ui_payload to null, makes no model call and goes
\* to END without popping pending_intents, even when the queue is non-empty
\* and route_lock is null.
C15_DenialIsTerminal == [][C15_Step]_vars

C15_Witness ==
    /\ node = "__end__"
    /\ LastMessage.content = "ACCESS_DENIED"
    /\ LastMessage.name = "User"
    /\ pending_intents # <<>>
    /\ route_lock = NULL
    /\ llm_calls = 2


\* ---- C16 ---------------------------------------------------------------------
GuardianIntents == {"booking", "capacity", "general"}

\* C16: with the table as shipped no turn is denied: at every entry of the
\* guardian current_intent is booking, capacity or general, and
\* check_permission is true of each of them for every user_role, an unknown
\* role being checked against the CARRIER entry.
C16_DenialUnreachable ==
    /\ node = "GUARDIAN" =>
          /\ current_intent \in GuardianIntents
          /\ check_permission(user_role, current_intent)
    /\ \A role \in RequestRoles, intent \in GuardianIntents :
          check_permission(role, intent)
    /\ \A i \in 1..Len(messages) : messages[i].content # "ACCESS_DENIED"

C16_Witness ==
    /\ node = "__end__"
    /\ user_role = "GUEST"
    /\ current_intent = "capacity"
    /\ "CAPACITY" \in {path[i] : i \in 1..Len(path)}


\* ---- C17 ---------------------------------------------------------------------
\* C17: whatever the shape of the classifier's output (text that is no JSON,
\* JSON that is no object, an object without intent or language, an object
\* whose intent or whose intents entries are no strings), the orchestrator
\* yields a routing decision, the language defaulting to English, and the
\* turn does not fail.
C17_ClassifierOutputNeverFatal ==
    /\ failure.cause \notin {"JSON_NOT_OBJECT", "INTENT_NOT_STRING",
                              "INTENTS_NOT_STRINGS"}
    /\ (OrchestratorRan /\ classification.language # "French")
          => language_detected = "English"


\* ---- C18 ---------------------------------------------------------------------
\* names no branch of the agent's if/elif chain matches
C18_Unknown(self, name) ==
    \/ name = "delete_booking"
    \/ self = "CAPACITY" /\ name \in {"prepare_booking_form",
                                         "get_bookings_by_user",
                                         "get_all_bookings",
                                         "get_bookings_by_terminal_id"}
    \/ self = "BOOKING" /\ name = "get_capacity_summary"

C18_Step ==
    (/\ node \in valid_nodes
     /\ Len(decisions') = Len(decisions) + 1
     /\ decisions'[Len(decisions')] # <<>>
     /\ C18_Unknown(node, decisions'[Len(decisions')][1].name))
    => LET name == decisions'[Len(decisions')][1].name
           n == Len(messages)
       IN  /\ Len(messages') = n + 3
           /\ messages'[n + 1].type = "ai"
           /\ messages'[n + 2] =
                 Msg("tool", node, name, "UNKNOWN_TOOL", NoDraft)
           /\ messages'[n + 3] = Msg("ai", node, "", "TEXT", NoDraft)
           /\ executed' = executed
           /\ prefetched' # prefetched =>
                 \A k \in 1..Len(prefetched') : prefetched'[k].tool # name
           /\ route_lock' = NULL
           /\ ui_payload' = ui_payload
           /\ draft_response' = Draft(node, "SYNTHESIS")
           /\ llm_calls' = llm_calls + 2
           /\ node' = "GUARDIAN"

\* C18: when the first tool the model names is unknown to the specialist,
\* the tool result is the text 'Unknown tool: <name>', no data-service call
\* is made for it, it sets neither route_lock nor ui_payload, and the visit
\* goes on through the synthesis call to the guardian.
C18_UnknownToolIsAnswered == [][C18_Step]_vars

C18_Witness ==
    /\ node = "__end__"
    /\ Len(messages) >= 4
    /\ messages[Len(messages) - 2] =
          Msg("tool", "BOOKING", "delete_booking", "UNKNOWN_TOOL", NoDraft)
    /\ LastMessage.of = Draft("BOOKING", "SYNTHESIS")


\* ---- C19 ---------------------------------------------------------------------
RequestFailedInTurn ==
    \/ \E i \in 1..Len(executed) : executed[i].failed
    \/ \E k \in 1..Len(prefetched) : prefetched[k].failed

\* the ToolMessage of the i-th executed tool
ToolMessageOf(i) ==
    LET at == {j \in (turn_base + 1)..Len(messages) :
                 /\ messages[j].type = "tool"
                 /\ messages[j].node = executed[i].node
                 /\ messages[j].name = executed[i].tool}
    IN  messages[CHOOSE j \in at : TRUE]

\* C19: when the data-service request behind a tool or a pre-fetch fails, the
\* tool returns a text instead of raising: no turn ends in an exception of
\* the data service, the failed tool's result is in the log as a tool
\* message, and a turn that reaches END ends with the guardian's assistant
\* message.
C19_BackendFailureIsAnswered ==
    /\ failure.cause # "DATA_SERVICE"
    /\ \A i \in 1..Len(executed) :
          (executed[i].failed /\ node # "IDLE") =>
             ToolMessageOf(i).content =
               (IF executed[i].tool = "prepare_booking_form"
                THEN "RESULT" ELSE "FAILED_TEXT")
    /\ (RequestFailedInTurn /\ TurnEnded)
          => /\ LastMessage.type = "ai"
             /\ LastMessage.node = "GUARDIAN"
             /\ response # NoResponse => response.message = LastMessage

C19_Witness ==
    /\ node = "IDLE"
    /\ response # NoResponse
    /\ \E i \in 1..Len(executed) :
          executed[i].failed /\ executed[i].tool = "get_bookings_by_user"
    /\ \E k \in 1..Len(prefetched) :
          prefetched[k].failed /\ prefetched[k].tool = "get_terminals_map"


\* ---- C20 ---------------------------------------------------------------------
ApiDone == api_pc = "idle" /\ api_calls > 0

\* C20: one api_get issues at most two GETs and one refresh; a first
\* response of 401 brings exactly one refresh attempt and, when it
\* succeeds, exactly one retry; a failed refresh or a retry that is no 2xx
\* is raised to the caller; any other first response brings no refresh and
\* no retry.
C20_OneRefreshOneRetry ==
    /\ gets <= 2 /\ refreshes <= 1
    /\ (ApiDone /\ first_status = 401) =>
          /\ refreshes = 1
          /\ gets = 2 => (api_result = "RETURNED" <=> status_code = 200)
          /\ gets = 1 => api_result = "RAISED"
    /\ api_pc = "retry" => refreshes = 1 /\ gets = 1
    /\ (ApiDone /\ first_status # 401) =>
          /\ refreshes = 0 /\ gets = 1
          /\ api_result = "RETURNED" <=> first_status = 200

C20_Witness ==
    /\ ApiDone
    /\ first_status = 401
    /\ refreshes = 1
    /\ gets = 2
    /\ status_code = 401
    /\ api_result = "RAISED"
    /\ tokens.access = "new"

\* ---- C21 ---------------------------------------------------------------------
Spaced(times) ==
    \A i, j \in 1..Len(times) :
        i < j => (times[j] - times[i] >= MIN_CALL_INTERVAL
                  \/ times[i] - times[j] >= MIN_CALL_INTERVAL)

C22_OneClientPerConfiguration ==
    /\ \A r1, r2 \in returned : r1[1] = r2[1] => r1[2] = r2[2]
    /\ \A i, j \in 1..Len(constructed) :
          constructed[i] = constructed[j] => i = j

\* ---- C23 ---------------------------------------------------------------------
\* the requests of a thread, in every order
SerialOrders(t) ==
    LET rs == {r \in Requests : thread_of(r) = t}
    IN  {o \in [1..Cardinality(rs) -> rs] :
            \A i, j \in DOMAIN o : o[i] = o[j] => i = j}

RECURSIVE SerialRun(_, _)
SerialRun(o, n) ==
    IF n = 0 THEN EmptyCheckpoint
    ELSE TurnAlone(SerialRun(o, n - 1), o[n], inv_writes[o[n]])

\* C23: turns running concurrently on one thread_id never interleave their
\* state updates: once they have all ended, the persisted state is the one
\* that running them one after the other, in some order, leaves.
C23_ConcurrentTurnsSerialize ==
    \A t \in ThreadIds :
        (\A r \in Requests : thread_of(r) = t => inv_pc[r] = "done")
            => \E o \in SerialOrders(t) : checkpoints[t] = SerialRun(o, Len(o))

\* ---- C24 ---------------------------------------------------------------------
C24_Step ==
    messages # <<>> =>
        /\ user_id' = user_id
        /\ user_role' = user_role
        /\ terminal_id' = terminal_id
        /\ carrier_id' = carrier_id

\* C24: once the first turn of a thread has set user_id, user_role,
\* terminal_id and carrier_id, no later turn changes them.
C24_IdentityFixedAfterFirstTurn == [][C24_Step]_vars

\* ---- C25 ---------------------------------------------------------------------
IsPrefix(s, t) == Len(s) <= Len(t) /\ SubSeq(t, 1, Len(s)) = s

\* the queue the orchestrator's classification alone determines
C25_FreshQueue ==
    IF Contains(classification.intent, "MULTI")
    THEN MultiRemaining(MultiPlan(classification))
    ELSE <<>>

C25_Step ==
    /\ IsPrefix(messages, messages')
    /\ (node \in valid_nodes \cup {"GUARDIAN", "IDLE"} /\ node' # node)
          => Len(messages') > Len(messages)
    /\ (node = "ORCHESTRATOR" /\ node' # node
          /\ ~PendingBranch(classification'.intent, pending_intents))
          => pending_intents' = C25_FreshQueue'

\* C25: messages only grows: every step of a turn that writes messages appends
\* to it, so the earlier sequence is a prefix of every later one, across turns
\* and continuation legs; the other fields are replaced by the value a node
\* writes, not accumulated (the queue the orchestrator writes over a
\* non-empty queue is the new plan alone).
C25_MessagesOnlyGrow == [][C25_Step]_vars

C25_Witness ==
    /\ OrchestratorRan
    /\ pending_at_start # <<>>
    /\ Contains(classification.intent, "MULTI")
    /\ SpecialistVisits = 2
    /\ TurnEnded
    /\ turn_base > 0

\* ---- C26 ---------------------------------------------------------------------
\* the orchestrator has just routed the turn
JustRouted == Len(path) = 1 /\ path[1] = "ORCHESTRATOR"

\* first destination followed by the queue
C26_Plan == <<node>> \o pending_intents

\* the valid entries of the classifier's list, normalised, in its order
C26_ValidGiven ==
    IF classification.has_intents
    THEN SelectSeq([i \in 1..Len(classification.intents) |->
                       StripUpper(classification.intents[i])],
                   LAMBDA x : x \in valid_nodes)
    ELSE <<>>

\* C26: on a MULTI classification the plan, first destination followed by
\* pending_intents, has at least two entries, each BOOKING or CAPACITY; it is
\* the classifier's valid entries in their order, or CAPACITY then BOOKING
\* when there are fewer than two of them; current_intent is the first entry
\* and the turn is routed to it.
C26_MultiPlan ==
    (JustRouted /\ Contains(classification.intent, "MULTI"))
        => /\ Len(C26_Plan) >= 2
           /\ \A i \in 1..Len(C26_Plan) : C26_Plan[i] \in valid_nodes
           /\ C26_Plan = IF Len(C26_ValidGiven) >= 2 THEN C26_ValidGiven
                         ELSE <<"CAPACITY", "BOOKING">>
           /\ current_intent = Lower(C26_Plan[1])
           /\ node = C26_Plan[1]

C26_Witness ==
    /\ JustRouted
    /\ Contains(classification.intent, "MULTI")
    /\ classification.intents = <<"capacity", "BOOKING">>
    /\ pending_at_start # <<>>
    /\ pending_intents = <<"BOOKING">>

\* ---- C27 ---------------------------------------------------------------------
\* a turn that started with no lock and no queue, right after its orchestrator
C27_FreshTurnRouted ==
    JustRouted /\ lock_at_start = NULL /\ pending_at_start = <<>>

\* the routing cases, in the order the orchestrator tries them
C27_ByClassification ==
    LET intent == classification.intent
    IN  IF Contains(intent, "MULTI") THEN TRUE
        ELSE IF Contains(intent, "BOOKING")
          THEN node = "BOOKING" /\ pending_intents = <<>>
        ELSE IF Contains(intent, "CAPACITY")
          THEN node = "CAPACITY" /\ pending_intents = <<>>
        ELSE node = "GUARDIAN" /\ pending_intents = <<>>

\* C27: on a turn that starts with route_lock null and pending_intents empty
\* the orchestrator step leaves both unchanged, and BOOKING goes to BOOKING
\* and CAPACITY to CAPACITY, each with pending_intents empty.
C27_BothUnchanged ==
    C27_FreshTurnRouted
        => /\ route_lock = NULL
           /\ pending_intents = <<>>
           /\ C27_ByClassification

\* C27, with the case that writes the queue: the orchestrator step leaves
\* route_lock null, and leaves pending_intents empty unless the classification
\* is MULTI, where the queue is the rest of the plan and the destination its
\* first entry; the destination is fixed by the classification alone.
C27_UnchangedUnlessMulti ==
    C27_FreshTurnRouted
        => /\ route_lock = NULL
           /\ C27_ByClassification
           /\ Contains(classification.intent, "MULTI")
                => /\ pending_intents = Tail(C26_Plan)
                   /\ Len(pending_intents) >= 1
                   /\ node \in valid_nodes

C27_Witness ==
    /\ C27_FreshTurnRouted
    /\ turn_base > 0
    /\ classification.intent = "CAPACITY"
    /\ node = "CAPACITY"
    /\ current_intent = "capacity"

\* ---- C28 ---------------------------------------------------------------------
\* the classification names no specialist, and no queue was pending
C28_DirectTurn ==
    /\ OrchestratorRan
    /\ pending_at_start = <<>>
    /\ ~Contains(classification.intent, "MULTI")
    /\ ~Contains(classification.intent, "BOOKING")
    /\ ~Contains(classification.intent, "CAPACITY")

\* the fixed text of the case
C28_FixedText ==
    IF Contains(classification.intent, "HELP")
    THEN Draft("ORCHESTRATOR",
               CASE user_role = "ADMIN" -> "HELP_ADMIN"
                 [] user_role = "OPERATOR" -> "HELP_OPERATOR"
                 [] OTHER -> "HELP_CARRIER")
    ELSE IF Contains(classification.intent, "OUT_OF_SCOPE")
    THEN Draft("ORCHESTRATOR", "REFUSAL")
    ELSE Draft("ORCHESTRATOR", "GREETING")

C29_Decided == decisions'[Len(decisions')]

\* the executed call was communicate_with_user with needs_followup true
C29_Asked ==
    /\ C29_Decided # <<>>
    /\ C29_Decided[1].name = "communicate_with_user"
    /\ C29_Decided[1].needs_followup

C29_Step ==
    (node \in valid_nodes /\ node' = "GUARDIAN")
        => /\ C29_Asked => route_lock' = node
           /\ ~C29_Asked => route_lock' = NULL

\* C29: route_lock at a specialist's exit is the specialist's own name if and
\* only if the executed tool was communicate_with_user with needs_followup
\* true; after a direct answer, a form, a data fetch with synthesis or an
\* unknown tool it is null, so a lock held at turn start is cleared when the
\* turn reaches the locked specialist and it does not ask again.
C29_LockIffFollowup == [][C29_Step]_vars

C29_Witness ==
    /\ lock_at_start = "CAPACITY"
    /\ path = <<"ORCHESTRATOR", "CAPACITY">>
    /\ node = "GUARDIAN"
    /\ decisions[1] # <<>>
    /\ decisions[1][1].name = "communicate_with_user"
    /\ ~decisions[1][1].needs_followup
    /\ route_lock = NULL

\* ---- C30 ---------------------------------------------------------------------
\* get_all_bookings was called with neither date
C30_NoDatesGiven ==
    called = "get_all_bookings" /\ start_date = NoDate /\ end_date = NoDate

C31_Expected ==
    [access  |-> IF given.access # NULL THEN given.access
                 ELSE tokens_before.access,
     refresh |-> IF given.refresh # NULL THEN given.refresh
                 ELSE tokens_before.refresh,
     csrf    |-> IF given.csrf # NULL THEN given.csrf
                 ELSE tokens_before.csrf]

\* C31: after a successful refresh that returns a new access token, the retry
\* inside the same api_get and every later get_auth carry the new token and
\* not the expired one; a token the refresh response omits keeps the value
\* stored before.
C31_RefreshedTokensAreUsed ==
    issued > 0
        => /\ tokens = C31_Expected
           /\ (gets >= 1 /\ api_pc # "retry") => sent = C31_Expected
           /\ (gets = 2 /\ given.access # NULL)
                => /\ sent.access = given.access
                   /\ sent.access # sent_first.access

C31_Witness ==
    /\ issued = 2
    /\ gets = 2
    /\ given.access = "new2"
    /\ given.csrf = NULL
    /\ sent = [access |-> "new2", refresh |-> "old", csrf |-> "new"]
    /\ sent_first.access = "new"

\* ---- C32 ---------------------------------------------------------------------
\* the specialists visited in the turn, in order
Visited == SelectSeq(path, LAMBDA n : n \in valid_nodes)

\* the turn has returned, and its last specialist visit was BOOKING executing
\* prepare_booking_form for a carrier
C32_FormTurn ==
    /\ node = "IDLE" /\ response # NoResponse
    /\ user_role = "CARRIER"
    /\ Visited # <<>>
    /\ Visited[Len(Visited)] = "BOOKING"
    /\ decisions[Len(decisions)] # <<>>
    /\ decisions[Len(decisions)][1].name = "prepare_booking_form"

\* C32: after a CARRIER turn in which the Booking specialist executes
\* prepare_booking_form and no continuation leg follows, the ui_payload of the
\* response is the structured result of the tool, built from the arguments the
\* model passed, and its route_lock is null.
C32_FormInResponse ==
    C32_FormTurn
        => /\ response.ui_payload =
                [ui_action |-> "OPEN_BOOKING_FORM",
                 terminal |-> decisions[Len(decisions)][1].terminal_id]
           /\ response.ui_payload.terminal # NULL
           /\ response.route_lock = NULL
           /\ route_lock = NULL

C32_Witness ==
    /\ C32_FormTurn
    /\ Visited = <<"CAPACITY", "BOOKING">>
    /\ lock_at_start = "CAPACITY"
    /\ response.ui_payload.ui_action = "OPEN_BOOKING_FORM"

\* ---- C33 ---------------------------------------------------------------------
\* the visit ends after the decision call: no tool call, or the form, or a
\* question to the user
C33_OneCall ==
    \/ C29_Decided = <<>>
    \/ /\ C29_Decided # <<>>
       /\ C29_Decided[1].name \in Dispatch(node)
       /\ \/ C29_Decided[1].name = "prepare_booking_form"
          \/ /\ C29_Decided[1].name = "communicate_with_user"
             /\ C29_Decided[1].needs_followup

C33_Step ==
    (node \in valid_nodes /\ node' = "GUARDIAN")
        => /\ C33_OneCall => llm_calls' = llm_calls + 1
           /\ ~C33_OneCall => llm_calls' = llm_calls + 2
           /\ (C33_OneCall /\ C29_Decided # <<>>)
                => draft_response'.kind \in {"FORM_TEXT", "QUESTION"}

\* C33: a specialist visit makes one or two model calls: exactly one when the
\* model made no tool call, when the executed tool was prepare_booking_form or
\* when it was communicate_with_user with needs_followup true, the draft then
\* coming from the tool result; exactly two, decision then synthesis, after
\* every other tool call.
C33_ModelCallsPerVisit == [][C33_Step]_vars

C33_Witness ==
    /\ node = "GUARDIAN"
    /\ Visited = <<"BOOKING", "CAPACITY">>
    /\ Len(decisions) = 2
    /\ decisions[1] # <<>> /\ decisions[1][1].name = "get_all_bookings"
    /\ decisions[2] # <<>> /\ decisions[2][1].name = "communicate_with_user"
    /\ decisions[2][1].needs_followup
    /\ llm_calls = 5

\* ---- C34 ---------------------------------------------------------------------
\* the classification names no specialist
SideIntent ==
    /\ ~Contains(classification.intent, "MULTI")
    /\ ~Contains(classification.intent, "BOOKING")
    /\ ~Contains(classification.intent, "CAPACITY")

\* C34: when a turn starts with pending_intents non-empty and route_lock null
\* and the message is classified CHITCHAT, HELP, OUT_OF_SCOPE or unrecognised,
\* the orchestrator routes to the head of the queue, sets current_intent to it
\* and pending_intents to the tail.
C34_QueueBeforeSideTalk ==
    (JustRouted /\ pending_at_start # <<>> /\ lock_at_start = NULL
        /\ SideIntent)
        => /\ node = Head(pending_at_start)
           /\ current_intent = Lower(Head(pending_at_start))
           /\ pending_intents = Tail(pending_at_start)

\* ---- C35 ---------------------------------------------------------------------
C35_Step ==
    (pending_intents # <<>> /\ pending_intents' # pending_intents)
        => /\ node' = Head(pending_intents)
           /\ pending_intents' = Tail(pending_intents)

\* C35: no orchestrator or Guardian step removes an intent from the queue
\* without routing to it, whatever the user sends in between, so every intent
\* a MULTI classification queued is dispatched to its specialist.
C35_QueuedIntentsAreDispatched == [][C35_Step]_vars

\* ---- C36 ---------------------------------------------------------------------
\* C36: a MULTI plan never holds the same specialist twice, and no specialist
\* is visited more than once within one external turn.
C36_NoSpecialistTwice ==
    /\ (JustRouted /\ Contains(classification.intent, "MULTI"))
          => \A i, j \in 1..Len(C26_Plan) : C26_Plan[i] = C26_Plan[j] => i = j
    /\ Count(path, "BOOKING") <= 1
    /\ Count(path, "CAPACITY") <= 1

\* ---- C37 ---------------------------------------------------------------------
\* Guardian is entered with no draft, or an empty one, by a user it lets pass
C37_EmptyDraftAtEntry ==
    /\ node = "GUARDIAN"
    /\ draft_response.kind \in {"NONE", "EMPTY"}
    /\ check_permission(user_role, current_intent)

C37_Step ==
    C37_EmptyDraftAtEntry
        => /\ Len(messages') = Len(messages) + 1
           /\ SubSeq(messages', 1, Len(messages)) = messages
           /\ messages'[Len(messages')] =
                Msg("ai", "GUARDIAN", "", "FINAL",
                    Draft("GUARDIAN", "REPHRASE"))
           /\ node' = IF pending_intents # <<>> /\ route_lock = NULL
                      THEN Head(pending_intents) ELSE "__end__"

\* C37: if draft_response is null or empty at Guardian entry and the
\* permission check passes, the text handed to formatting is the fixed
\* please-rephrase message, and the pass appends exactly one assistant message
\* and goes on normally, to the end of the turn or to the next queued
\* specialist.
C37_EmptyDraftFallback == [][C37_Step]_vars

C37_Witness ==
    /\ TurnEnded
    /\ path = <<"ORCHESTRATOR", "CAPACITY", "GUARDIAN">>
    /\ decisions = <<(<<>>)>>
    /\ LastMessage.of = Draft("GUARDIAN", "REPHRASE")
    /\ Len(messages) = turn_base + 3

\* ---- C38 ---------------------------------------------------------------------
\* a turn the orchestrator routed straight to Guardian has returned
C38_DirectTurnReturned ==
    /\ node = "IDLE" /\ response # NoResponse
    /\ path = <<"ORCHESTRATOR", "GUARDIAN">>

\* the lock a direct turn started with is still set, and reported
C38_Reported ==
    C38_DirectTurnReturned
        => /\ route_lock = lock_at_start
           /\ response.route_lock = lock_at_start

C38_Step ==
    /\ node \notin valid_nodes => route_lock' = route_lock
    /\ C38_Reported'

\* C38: neither the orchestrator nor Guardian ever changes route_lock, only a
\* specialist visit writes it; a lock set before a turn that is routed
\* directly to Guardian is still set after it and is reported in its response.
C38_LockSurvivesDirectTurns == [][C38_Step]_vars

C38_Witness ==
    /\ C38_DirectTurnReturned
    /\ lock_at_start = "BOOKING"
    /\ response.route_lock = "BOOKING"
    /\ classification.intent = "HELP"
    /\ turn_base >= 4

\* ---- C39 ---------------------------------------------------------------------
\* the orchestrator has stepped on this thread, in this turn or an earlier one
C39_OrchestratorHasRun == path # <<>> \/ turn_base > 0

\* step 3 of the orchestrator would find a queue head that is no specialist
C39_OrchestratorSkips ==
    /\ node = "ORCHESTRATOR"
    /\ \E raw \in ClassifierOutputs :
          /\ PendingBranch(classify_intent_and_language(raw).intent,
                           pending_intents)
          /\ Head(pending_intents) \notin valid_nodes

\* step G of Guardian would find a queue head that is no specialist
C39_GuardianSkips ==
    /\ node = "GUARDIAN"
    /\ GuardianContinues(pending_intents, route_lock)
    /\ Head(pending_intents) \notin valid_nodes

\* C39: in every reachable state route_lock is null, BOOKING or CAPACITY, every
\* queued intent is BOOKING or CAPACITY, and once the orchestrator has stepped
\* current_intent is booking, capacity or general; so neither the orchestrator
\* nor Guardian ever takes its 'invalid pending intent' branch.
C39_StateValuesStayValid ==
    /\ route_lock \in {NULL} \cup valid_nodes
    /\ \A i \in 1..Len(pending_intents) : pending_intents[i] \in valid_nodes
    /\ C39_OrchestratorHasRun
          => current_intent \in {"booking", "capacity", "general"}
    /\ ~C39_OrchestratorSkips
    /\ ~C39_GuardianSkips

\* Guardian is about to pop a queue a MULTI plan with a foreign entry left
C39_Witness ==
    /\ node = "GUARDIAN"
    /\ GuardianContinues(pending_intents, route_lock)
    /\ classification.intents = <<"BOOKING", "HISTORY">>
    /\ current_intent = "capacity"

\* ---- C40 ---------------------------------------------------------------------
C40_EntersGuardian == node # "GUARDIAN" /\ node' = "GUARDIAN"

C40_Step ==
    C40_EntersGuardian
        => /\ draft_response'.by = node
           /\ node = "ORCHESTRATOR"
                 => draft_response' =
                      OrchestratorCommand(classification', pending_intents,
                                          route_lock, user_role).draft_response
           /\ node \in valid_nodes
                 => draft_response'.kind \in
                      {"ANSWER", "FORM_TEXT", "QUESTION", "SYNTHESIS", "EMPTY"}

\* C40: every step that enters GUARDIAN writes draft_response in that same
\* step, the orchestrator on its direct routes and a specialist on each of its
\* exits, so the draft a Guardian pass reads was written by the node that ran
\* immediately before it, never by an earlier leg or an earlier turn.
C40_DraftWrittenOnEntry == [][C40_Step]_vars

\* the second leg of a compound turn, on a thread whose previous turn failed,
\* has reached Guardian
C40_Witness ==
    /\ node = "GUARDIAN"
    /\ prev_failed
    /\ path = <<"ORCHESTRATOR", "CAPACITY", "GUARDIAN", "BOOKING">>
    /\ draft_response.by = "BOOKING"

====
